---------------------------- MODULE Spec2Model ----------------------------
(***************************************************************************)
(* State-machine model of the four SSL certificate pollers of              *)
(* src/ssl_checker:                                                        *)
(*   "V1" ssl_check.py, "V2" ssl_checkV2.py, "V3" ssl_checkV3.py,          *)
(*   "SW" ssl_checker_with_server_and_website.py.                          *)
(* A run is main(): argument handling, startup output, the polling loop    *)
(* inside try, and the except KeyboardInterrupt handler.  One action is    *)
(* one statement of main(); the interrupt is an action of the environment  *)
(* that may fire between any two statements.                               *)
(*                                                                         *)
(* Strings are sequences of one-character strings.  Timestamps produced    *)
(* by datetime.now() are left out of the entries: no branch reads them.    *)
(***************************************************************************)
EXTENDS Integers, Sequences, FiniteSets, TLC

VARIABLES
    variant,       \* which script runs
    argv,          \* the command line: [interval, port, server, website]
    pc,            \* the statement main() is at
    hostname,      \* local hostname (V3: website) passed to the Inspector
    port,          \* local port
    interval,      \* local interval
    website,       \* local website (display name)
    log_filename,  \* local log_filename
    bound,         \* the names of the loop locals that are bound
    check_count,   \* local check_count (meaningful when bound)
    result,        \* local result
    console,       \* standard output, a sequence of entries
    fs,            \* the files written, filename -> sequence of entries
    calls,         \* the check_ssl_certificate invocations made so far
    outcomes,      \* the values check_ssl_certificate has returned so far
    runs,          \* what subprocess.run did in each call that has ended
    exit_code,     \* "none" while running, else the process exit status
    cause,         \* what ended the process
    delivered      \* the interrupt signals so far: the statement each hit

vars == <<variant, argv, pc, hostname, port, interval, website, log_filename,
          bound, check_count, result, console, fs, calls, outcomes, runs,
          exit_code, cause, delivered>>

-----------------------------------------------------------------------------
(* Bounds of the model *)

MaxChecks == 2
MaxWriteFailures == 1
MaxInterrupts == 2

(* Program constants *)

DefaultInterval == 60
DefaultPort == 443
MaxPort == 65535

-----------------------------------------------------------------------------
(* Strings *)

Whitespace == {" ", "\t", "\n"}
Digits == {"0", "1", "2", "3", "4", "5", "6", "7", "8", "9"}

RECURSIVE LStrip(_)
LStrip(s) == IF s # <<>> /\ Head(s) \in Whitespace THEN LStrip(Tail(s)) ELSE s

RECURSIVE RStrip(_)
RStrip(s) ==
    IF s # <<>> /\ s[Len(s)] \in Whitespace
    THEN RStrip(SubSeq(s, 1, Len(s) - 1))
    ELSE s

\* str.strip()
Strip(s) == RStrip(LStrip(s))

DigitValue(c) ==
    CASE c = "0" -> 0 [] c = "1" -> 1 [] c = "2" -> 2 [] c = "3" -> 3
      [] c = "4" -> 4 [] c = "5" -> 5 [] c = "6" -> 6 [] c = "7" -> 7
      [] c = "8" -> 8 [] c = "9" -> 9

\* the unsigned part of an int() literal: digits, single underscores between
IsDigitGroup(s) ==
    /\ s # <<>>
    /\ \A i \in 1..Len(s) : s[i] \in Digits \cup {"_"}
    /\ s[1] \in Digits
    /\ s[Len(s)] \in Digits
    /\ \A i \in 1..(Len(s) - 1) : ~(s[i] = "_" /\ s[i + 1] = "_")

Unsigned(s) ==
    LET t == Strip(s)
    IN  IF t # <<>> /\ Head(t) \in {"+", "-"} THEN Tail(t) ELSE t

\* int(s) does not raise ValueError
IsIntLiteral(s) == IsDigitGroup(Unsigned(s))

RECURSIVE DigitsValue(_, _)
DigitsValue(s, acc) ==
    IF s = <<>> THEN acc
    ELSE IF Head(s) = "_" THEN DigitsValue(Tail(s), acc)
    ELSE DigitsValue(Tail(s), 10 * acc + DigitValue(Head(s)))

\* int(s), for s with IsIntLiteral(s)
IntValue(s) ==
    LET t == Strip(s)
        v == DigitsValue(Unsigned(s), 0)
    IN  IF Head(t) = "-" THEN 0 - v ELSE v

\* ':' in s
HasColon(s) == \E i \in 1..Len(s) : s[i] = ":"

LastColon(s) == CHOOSE i \in 1..Len(s) :
                    s[i] = ":" /\ \A j \in (i + 1)..Len(s) : s[j] # ":"

\* s.rsplit(':', 1), for s with a colon
RSplitColon(s) ==
    <<SubSeq(s, 1, LastColon(s) - 1), SubSeq(s, LastColon(s) + 1, Len(s))>>

\* website.replace(':', '_').replace('/', '_').replace('.', '_')
clean_website(s) ==
    [i \in 1..Len(s) |-> IF s[i] \in {":", "/", "."} THEN "_" ELSE s[i]]


RECURSIVE PyDigits(_)
PyDigits(n) ==
    LET d == CHOOSE c \in Digits : DigitValue(c) = n % 10
    IN  IF n < 10 THEN <<d>> ELSE Append(PyDigits(n \div 10), d)

\* the text an f-string gives for an int
PyStr(n) == IF n < 0 THEN <<"-">> \o PyDigits(0 - n) ELSE PyDigits(n)

-----------------------------------------------------------------------------
(* Output entries: one per print() call or per write_to_file() call *)

Entry(kind, n, text) == [kind |-> kind, n |-> n, text |-> text]

startup_msg == Entry("startup_msg", 0, <<>>)
press_ctrl_c == Entry("press_ctrl_c", 0, <<>>)
check_header(n) == Entry("check_header", n, <<>>)
result_line(r) == Entry("result", 0, r)
separator_line == Entry("separator_line", 0, <<>>)
final_msg(n) == Entry("final_msg", n, <<>>)
results_saved(f) == Entry("results_saved", 0, f)
final_separator == Entry("final_separator", 0, <<>>)
write_error == Entry("write_error", 0, <<>>)
usage_msg == Entry("usage", 0, <<>>)
interval_error == Entry("interval_error", 0, <<>>)
port_error == Entry("port_error", 0, <<>>)
invalid_port(port_str) == Entry("invalid_port", 0, port_str)
\* ssl_check.py only
starting_msg == Entry("starting", 0, <<>>)
interval_msg(i) == Entry("check_interval", i, <<>>)
stopping_msg == Entry("stopping", 0, <<>>)

-----------------------------------------------------------------------------
(* check_ssl_certificate: what subprocess.run did, and what is returned *)

Completed(rc, out, err) ==
    [kind |-> "completed", returncode |-> rc, stdout |-> out, stderr |-> err,
     msg |-> <<>>]
TimeoutExpired ==
    [kind |-> "TimeoutExpired", returncode |-> 0, stdout |-> <<>>,
     stderr |-> <<>>, msg |-> <<>>]
OtherException(m) ==
    [kind |-> "Exception", returncode |-> 0, stdout |-> <<>>, stderr |-> <<>>,
     msg |-> m]

ErrorPrefix == <<"E", "r", "r", "o", "r", ":", " ">>
TimedOutText == <<"C", "o", "m", "m", "a", "n", "d", " ", "t", "i", "m", "e",
                  "d", " ", "o", "u", "t">>

\* the function ends by returning value, or by raising
Returns(value) == [raised |-> FALSE, value |-> value]
Raises == [raised |-> TRUE, value |-> <<>>]

\* without the last clause, except Exception: another exception leaves
check_ssl_certificate_uncaught(h, p, run) ==
    IF run.kind = "completed"
    THEN IF run.returncode = 0
         THEN Returns(Strip(run.stdout))
         ELSE Returns(ErrorPrefix \o Strip(run.stderr))
    ELSE IF run.kind = "TimeoutExpired"
    THEN Returns(ErrorPrefix \o TimedOutText)
    ELSE Raises

check_ssl_certificate(h, p, run) ==
    IF run.kind = "completed"
    THEN IF run.returncode = 0
         THEN Returns(Strip(run.stdout))
         ELSE Returns(ErrorPrefix \o Strip(run.stderr))
    ELSE IF run.kind = "TimeoutExpired"
    THEN Returns(ErrorPrefix \o TimedOutText)
    ELSE Returns(ErrorPrefix \o run.msg)

\* the outcomes of the openssl pipeline the model draws from
RunOutcomes ==
    { Completed(0, <<" ", "s", "=", "C", "N", "\n">>, <<>>),
      Completed(1, <<>>, <<"n", "o", " ", "\n">>),
      TimeoutExpired,
      OtherException(<<"o", "s">>) }

\* the outcomes drawn inside the polling loop: a certificate, and a failure
LoopOutcomes ==
    { Completed(0, <<" ", "s", "=", "C", "N", "\n">>, <<>>),
      Completed(1, <<>>, <<"n", "o", " ", "\n">>) }

-----------------------------------------------------------------------------
(* write_to_file: append content to filename; an Exception raised by open   *)
(* or write is caught and reported on the console.  ok is whether the       *)
(* operating system let this append through.  raised is whether an          *)
(* exception leaves the function.                                           *)

FileOf(f) == IF f \in DOMAIN fs THEN fs[f] ELSE <<>>

\* open(filename, 'w') in place of 'a': each call truncates the file
write_to_file_truncating(filename, content, ok) ==
    IF ok
    THEN [fs |-> (IF filename \in DOMAIN fs
                  THEN [fs EXCEPT ![filename] = <<content>>]
                  ELSE fs @@ (filename :> <<content>>)),
          console |-> console,
          raised |-> FALSE]
    ELSE [fs |-> fs,
          console |-> Append(console, write_error),
          raised |-> FALSE]

\* no try/except around open and write: the exception leaves the function
write_to_file_uncaught(filename, content, ok) ==
    IF ok
    THEN [fs |-> (IF filename \in DOMAIN fs
                  THEN [fs EXCEPT ![filename] = Append(@, content)]
                  ELSE fs @@ (filename :> <<content>>)),
          console |-> console,
          raised |-> FALSE]
    ELSE [fs |-> fs,
          console |-> console,
          raised |-> TRUE]

write_to_file(filename, content, ok) ==
    IF ok
    THEN [fs |-> (IF filename \in DOMAIN fs
                  THEN [fs EXCEPT ![filename] = Append(@, content)]
                  ELSE fs @@ (filename :> <<content>>)),
          console |-> console,
          raised |-> FALSE]
    ELSE [fs |-> fs,
          console |-> Append(console, write_error),
          raised |-> FALSE]

-----------------------------------------------------------------------------
(* parse_hostname_port (ssl_checker_with_server_and_website.py) *)

\* split(':', 1) in place of rsplit(':', 1): the cut is at the first colon
parse_hostname_port_first_colon(hostname_arg) ==
    IF HasColon(hostname_arg)
    THEN LET first == CHOOSE i \in 1..Len(hostname_arg) :
                          /\ hostname_arg[i] = ":"
                          /\ \A j \in 1..(i - 1) : hostname_arg[j] # ":"
             parts == <<SubSeq(hostname_arg, 1, first - 1),
                        SubSeq(hostname_arg, first + 1, Len(hostname_arg))>>
         IN  IF IsIntLiteral(parts[2])
             THEN [exit |-> FALSE, hostname |-> parts[1],
                   port |-> IntValue(parts[2]), port_str |-> parts[2]]
             ELSE [exit |-> TRUE, hostname |-> parts[1], port |-> 0,
                   port_str |-> parts[2]]
    ELSE [exit |-> FALSE, hostname |-> hostname_arg, port |-> DefaultPort,
          port_str |-> <<>>]

parse_hostname_port(hostname_arg) ==
    IF HasColon(hostname_arg)
    THEN LET parts == RSplitColon(hostname_arg)
         IN  IF IsIntLiteral(parts[2])
             THEN [exit |-> FALSE, hostname |-> parts[1],
                   port |-> IntValue(parts[2]), port_str |-> parts[2]]
             ELSE [exit |-> TRUE, hostname |-> parts[1], port |-> 0,
                   port_str |-> parts[2]]
    ELSE [exit |-> FALSE, hostname |-> hostname_arg, port |-> DefaultPort,
          port_str |-> <<>>]

-----------------------------------------------------------------------------
(* Command lines the model draws from *)

Variants == {"V1", "V2", "V3", "SW"}
HasLog == variant # "V1"

HardcodedHost == <<"login.emory.edu">>
WebsiteArg == <<"w", ".", "e">>

\* <<>> is "flag not given"; <<s>> is "flag given with text s"
IntervalArgs ==
    { <<>>, << <<"1">> >>, << <<"0">> >>, << <<"-", "1">> >>, << <<"x">> >> }
PortArgs ==
    { <<>>, << <<"0">> >>, << <<"1">> >>, << <<"6", "5", "5", "3", "5">> >>,
      << <<"6", "5", "5", "3", "6">> >>, << <<"-", "1">> >>, << <<"x">> >> }
ServerArgs ==
    { <<"h">>,
      <<"h", ":", "8", "4", "4", "3">>,
      <<"h", ":", "0">>,
      <<"h", ":", "6", "5", "5", "3", "6">>,
      <<"h", ":", "-", "1">>,
      <<"h", ":", "x">>,
      <<"h", ":">>,
      <<"a", ":", "b", ":", "8", "0">> }

Argv(i, p, s) == [interval |-> i, port |-> p, server |-> s, website |-> WebsiteArg]

\* each flag is varied with the other flags at a plain value
CommandLines(v) ==
    CASE v \in {"V1", "V2"} -> { Argv(i, <<>>, <<>>) : i \in IntervalArgs }
      [] v = "V3" -> { Argv(i, <<>>, <<>>) : i \in IntervalArgs }
                     \cup { Argv(<< <<"1">> >>, p, <<>>) : p \in PortArgs }
      [] v = "SW" -> { Argv(i, <<>>, <<"h">>) : i \in IntervalArgs }
                     \cup { Argv(<< <<"1">> >>, <<>>, s) : s \in ServerArgs }

-----------------------------------------------------------------------------
(* Control points of main() *)

\* the statements inside try:
TryPcs ==
    { "enter_try", "increment", "print_header", "write_header",
      "call_inspector", "inspector_running", "print_result", "write_result",
      "print_separator", "write_separator", "sleep" }

\* the statements of the except KeyboardInterrupt block
HandlerPcs ==
    { "format_final", "print_final", "print_saved", "print_final_separator",
      "write_final", "write_saved", "write_final_separator", "exit0" }

StartupPcs ==
    { "parse_args", "print_startup", "print_interval", "write_startup",
      "print_hint" }

WriteFailures ==
    Cardinality({ i \in 1..Len(console) : console[i] = write_error })

\* main() has not run a statement yet
Fresh ==
    /\ pc = "parse_args"
    /\ hostname = <<>>
    /\ port = 0
    /\ interval = 0
    /\ website = <<>>
    /\ log_filename = <<>>
    /\ bound = {}
    /\ check_count = 0
    /\ result = <<>>
    /\ console = <<>>
    /\ fs = <<>>
    /\ calls = <<>>
    /\ outcomes = <<>>
    /\ runs = <<>>
    /\ exit_code = "none"
    /\ cause = "none"
    /\ delivered = <<>>

Init ==
    /\ variant \in Variants
    /\ argv \in CommandLines(variant)
    /\ Fresh

\* sys.exit(code), or the interpreter ending on an uncaught exception
Exit(code, why) ==
    /\ pc' = "Stopped"
    /\ exit_code' = code
    /\ cause' = why

\* an exception other than KeyboardInterrupt leaves main(): traceback, status 1
Traceback(why) == Exit("1", why)

Running(next) ==
    /\ pc' = next
    /\ UNCHANGED <<exit_code, cause>>

-----------------------------------------------------------------------------
(* Argument handling *)

Config == <<variant, argv>>
Locals == <<hostname, port, interval, website, log_filename>>
LoopLocals == <<bound, check_count, result>>
Output == <<console, fs>>
History == <<calls, outcomes, runs, delivered>>

\* ssl_check.py 37-48, ssl_checkV2.py 47-61: int(sys.argv[1]) when given
ParseArgv ==
    /\ pc = "parse_args"
    /\ variant \in {"V1", "V2"}
    /\ IF Len(argv.interval) > 0 /\ ~IsIntLiteral(argv.interval[1])
       THEN /\ console' = Append(console, usage_msg)
            /\ Exit("1", "usage")
            /\ UNCHANGED Locals
       ELSE /\ hostname' = HardcodedHost
            /\ port' = DefaultPort
            /\ interval' = IF Len(argv.interval) > 0
                           THEN IntValue(argv.interval[1])
                           ELSE DefaultInterval
            /\ log_filename' = IF variant = "V2"
                               THEN <<"script_output/ssl_check_">>
                                    \o HardcodedHost \o <<".log">>
                               ELSE <<>>
            /\ Running("print_startup")
            /\ UNCHANGED <<website, console>>
    /\ UNCHANGED <<Config, LoopLocals, fs, History>>

\* argparse type=int: a value int() rejects ends the process with status 2
ArgparseRejects(arg) == Len(arg) > 0 /\ ~IsIntLiteral(arg[1])
ArgparseInt(arg, default) == IF Len(arg) > 0 THEN IntValue(arg[1]) ELSE default

\* ssl_checkV3.py 95-114
ParseArgsV3 ==
    /\ pc = "parse_args"
    /\ variant = "V3"
    /\ LET args == [interval |-> ArgparseInt(argv.interval, DefaultInterval),
                    port |-> ArgparseInt(argv.port, DefaultPort)]
       IN  IF ArgparseRejects(argv.interval) \/ ArgparseRejects(argv.port)
           THEN /\ Exit("2", "argparse")
                /\ UNCHANGED <<Locals, console>>
           ELSE IF args.interval <= 0
           THEN /\ console' = Append(console, interval_error)
                /\ Exit("1", "interval")
                /\ UNCHANGED Locals
           ELSE IF args.port <= 0 \/ args.port > MaxPort
           THEN /\ console' = Append(console, port_error)
                /\ Exit("1", "port")
                /\ UNCHANGED Locals
           ELSE /\ website' = argv.website
                /\ hostname' = argv.website
                /\ port' = args.port
                /\ interval' = args.interval
                /\ log_filename' = <<"ssl_check_">> \o clean_website(argv.website)
                                   \o <<"_">> \o PyStr(args.port) \o <<".log">>
                /\ Running("print_startup")
                /\ UNCHANGED console
    /\ UNCHANGED <<Config, LoopLocals, fs, History>>

\* ssl_checker_with_server_and_website.py 110-126
ParseArgsSW ==
    /\ pc = "parse_args"
    /\ variant = "SW"
    /\ LET args == [interval |-> ArgparseInt(argv.interval, DefaultInterval)]
           parsed == parse_hostname_port(argv.server)
       IN  IF ArgparseRejects(argv.interval)
           THEN /\ Exit("2", "argparse")
                /\ UNCHANGED <<Locals, console>>
           ELSE IF args.interval <= 0
           THEN /\ console' = Append(console, interval_error)
                /\ Exit("1", "interval")
                /\ UNCHANGED Locals
           ELSE IF parsed.exit
           THEN /\ console' = Append(console, invalid_port(parsed.port_str))
                /\ Exit("1", "parse_port")
                /\ UNCHANGED Locals
           ELSE /\ hostname' = parsed.hostname
                /\ port' = parsed.port
                /\ website' = argv.website
                /\ interval' = args.interval
                /\ log_filename' = <<"ssl_check_">> \o clean_website(argv.website)
                                   \o <<".log">>
                /\ Running("print_startup")
                /\ UNCHANGED console
    /\ UNCHANGED <<Config, LoopLocals, fs, History>>

-----------------------------------------------------------------------------
(* Statements that print, and statements that call write_to_file *)

PrintStmt(at, entry, next) ==
    /\ pc = at
    /\ console' = Append(console, entry)
    /\ Running(next)
    /\ UNCHANGED <<Config, Locals, LoopLocals, fs, History>>

WriteStmt(at, content, next) ==
    /\ pc = at
    /\ \E ok \in BOOLEAN :
          /\ ok \/ WriteFailures < MaxWriteFailures
          /\ LET w == write_to_file(log_filename, content, ok)
             IN  /\ fs' = w.fs
                 /\ console' = w.console
                 /\ IF w.raised THEN Traceback("Exception") ELSE Running(next)
    /\ UNCHANGED <<Config, Locals, LoopLocals, History>>

(* Startup output *)

\* V1 50; V2 70; V3 123; SW 135
PrintStartup ==
    IF variant = "V1"
    THEN PrintStmt("print_startup", starting_msg, "print_interval")
    ELSE PrintStmt("print_startup", startup_msg, "write_startup")

\* V1 51
PrintInterval ==
    /\ variant = "V1"
    /\ PrintStmt("print_interval", interval_msg(interval), "print_hint")

\* V2 71; V3 124; SW 136
WriteStartup ==
    /\ HasLog
    /\ WriteStmt("write_startup", startup_msg, "print_hint")

\* V1 52; V2 73; V3 126; SW 138.  The next statement is the try.
PrintHint ==
    PrintStmt("print_hint", press_ctrl_c,
              IF variant = "V1" THEN "print_header" ELSE "enter_try")

-----------------------------------------------------------------------------
(* The polling loop *)

\* V2 76; V3 129; SW 141: check_count = 0, the first statement inside try
EnterTry ==
    /\ pc = "enter_try"
    /\ check_count' = 0
    /\ bound' = bound \cup {"check_count"}
    /\ Running("increment")
    /\ UNCHANGED <<Config, Locals, result, Output, History>>

\* check_count = 1 in place of check_count += 1: the counter restarts
Increment_restarting ==
    /\ pc = "increment"
    /\ check_count' = 1
    /\ Running("print_header")
    /\ UNCHANGED <<Config, Locals, bound, result, Output, History>>

\* V2 78; V3 131; SW 143: check_count += 1
Increment ==
    /\ pc = "increment"
    /\ check_count' = check_count + 1
    /\ Running("print_header")
    /\ UNCHANGED <<Config, Locals, bound, result, Output, History>>

\* V1 57; V2 83; V3 136; SW 148
PrintHeader ==
    PrintStmt("print_header", check_header(check_count),
              IF HasLog THEN "write_header" ELSE "call_inspector")

\* the header of the check after this one goes to the log
WriteHeader_of_next_check ==
    /\ HasLog
    /\ WriteStmt("write_header", check_header(check_count + 1), "call_inspector")

\* V2 84; V3 137; SW 149
WriteHeader ==
    /\ HasLog
    /\ WriteStmt("write_header", check_header(check_count), "call_inspector")

\* check_ssl_certificate(website, port): the display name as the target
CallInspector_with_website ==
    /\ pc = "call_inspector"
    /\ calls' = Append(calls, [hostname |-> website, port |-> port])
    /\ Running("inspector_running")
    /\ UNCHANGED <<Config, Locals, LoopLocals, Output, outcomes, runs,
                   delivered>>

\* V1 59; V2 87; V3 140; SW 152: the call is made, the subprocess runs
CallInspector ==
    /\ pc = "call_inspector"
    /\ calls' = Append(calls, [hostname |-> hostname, port |-> port])
    /\ Running("inspector_running")
    /\ UNCHANGED <<Config, Locals, LoopLocals, Output, outcomes, runs,
                   delivered>>

\* check_ssl_certificate returns and its value is bound to result
InspectorReturnsFrom(RunSet) ==
    /\ pc = "inspector_running"
    /\ \E run \in RunSet :
          LET r == check_ssl_certificate(hostname, port, run) IN
          /\ runs' = Append(runs, run)
          /\ IF r.raised
             THEN /\ Traceback("Exception")
                  /\ UNCHANGED <<result, outcomes>>
             ELSE /\ result' = r.value
                  /\ outcomes' = Append(outcomes, r.value)
                  /\ Running("print_result")
    /\ UNCHANGED <<Config, Locals, bound, check_count, Output, calls,
                   delivered>>

InspectorReturns == InspectorReturnsFrom(LoopOutcomes)

\* V1 60; V2 90; V3 143; SW 155
PrintResult ==
    PrintStmt("print_result", result_line(result),
              IF HasLog THEN "write_result" ELSE "print_separator")

\* V2 91; V3 144; SW 156
WriteResult ==
    /\ HasLog
    /\ WriteStmt("write_result", result_line(result), "print_separator")

\* V1 61; V2 95; V3 148; SW 160
PrintSeparator ==
    PrintStmt("print_separator", separator_line,
              IF HasLog THEN "write_separator" ELSE "sleep")

\* V2 96; V3 149; SW 161
WriteSeparator ==
    /\ HasLog
    /\ WriteStmt("write_separator", separator_line, "sleep")

\* a loop that calls again right after the sleep, without a new header
Sleep_then_call ==
    /\ pc = "sleep"
    /\ IF interval < 0
       THEN Traceback("ValueError")
       ELSE /\ Len(calls) < MaxChecks
            /\ Running("call_inspector")
    /\ UNCHANGED <<Config, Locals, LoopLocals, Output, History>>

\* V1 63; V2 98; V3 151; SW 163: time.sleep(interval) raises ValueError for
\* a negative interval; otherwise the loop goes round.
Sleep ==
    /\ pc = "sleep"
    /\ IF interval < 0
       THEN Traceback("ValueError")
       ELSE /\ Len(calls) < MaxChecks
            /\ Running(IF HasLog THEN "increment" ELSE "print_header")
    /\ UNCHANGED <<Config, Locals, LoopLocals, Output, History>>

-----------------------------------------------------------------------------
(* The interrupt, and the except KeyboardInterrupt block *)

\* SIGINT with a handler that returns instead of raising: time.sleep() is
\* resumed for the rest of the interval and the loop goes on
KeyboardInterrupt_sleep_resumed ==
    /\ pc # "Stopped"
    /\ Len(delivered) < MaxInterrupts
    /\ delivered' = Append(delivered, pc)
    /\ IF pc = "sleep"
       THEN Running("sleep")
       ELSE IF pc \in TryPcs
       THEN Running(IF HasLog THEN "format_final" ELSE "print_final")
       ELSE \E code \in {"1", "130"} : Exit(code, "KeyboardInterrupt")
    /\ UNCHANGED <<Config, Locals, LoopLocals, Output, calls, outcomes, runs>>

\* SIGINT: KeyboardInterrupt is raised at the current statement.  Inside try
\* it is caught by main()'s handler (write_to_file and check_ssl_certificate
\* catch Exception only, so it passes through them); anywhere else it is
\* uncaught and the interpreter ends with status 1 or by SIGINT (130),
\* depending on the interpreter version.
KeyboardInterrupt ==
    /\ pc # "Stopped"
    /\ Len(delivered) < MaxInterrupts
    /\ delivered' = Append(delivered, pc)
    /\ IF pc \in TryPcs
       THEN Running(IF HasLog THEN "format_final" ELSE "print_final")
       ELSE \E code \in {"1", "130"} : Exit(code, "KeyboardInterrupt")
    /\ UNCHANGED <<Config, Locals, LoopLocals, Output, calls, outcomes, runs>>

\* V2 102-104; V3 155-157; SW 167-169: final_msg reads check_count
FormatFinal ==
    /\ pc = "format_final"
    /\ IF "check_count" \in bound
       THEN Running("print_final")
       ELSE Traceback("UnboundLocalError")
    /\ UNCHANGED <<Config, Locals, LoopLocals, Output, History>>

\* V1 66; V2 106; V3 159; SW 171
PrintFinal ==
    IF variant = "V1"
    THEN PrintStmt("print_final", stopping_msg, "exit0")
    ELSE PrintStmt("print_final", final_msg(check_count), "print_saved")

\* V2 107; V3 160; SW 172
PrintSaved ==
    PrintStmt("print_saved", results_saved(log_filename),
              "print_final_separator")

\* V2 108; V3 161; SW 173
PrintFinalSeparator ==
    PrintStmt("print_final_separator", final_separator, "write_final")

\* V2 110; V3 163; SW 175
WriteFinal ==
    WriteStmt("write_final", final_msg(check_count), "write_saved")

\* V2 111; V3 164; SW 176
WriteSaved ==
    WriteStmt("write_saved", results_saved(log_filename),
              "write_final_separator")

\* V2 112; V3 165; SW 177
WriteFinalSeparator ==
    WriteStmt("write_final_separator", final_separator, "exit0")

\* V1 67; V2 114; V3 167; SW 179: sys.exit(0)
Exit0 ==
    /\ pc = "exit0"
    /\ Exit("0", "interrupt")
    /\ UNCHANGED <<Config, Locals, LoopLocals, Output, History>>

-----------------------------------------------------------------------------

Next ==
    \/ ParseArgv \/ ParseArgsV3 \/ ParseArgsSW
    \/ PrintStartup \/ PrintInterval \/ WriteStartup \/ PrintHint
    \/ EnterTry \/ Increment \/ PrintHeader \/ WriteHeader
    \/ CallInspector \/ InspectorReturns
    \/ PrintResult \/ WriteResult \/ PrintSeparator \/ WriteSeparator
    \/ Sleep
    \/ KeyboardInterrupt
    \/ FormatFinal \/ PrintFinal \/ PrintSaved \/ PrintFinalSeparator
    \/ WriteFinal \/ WriteSaved \/ WriteFinalSeparator \/ Exit0

Spec == Init /\ [][Next]_vars

\* the interpreter keeps executing main(); the signal is the environment's
ProgramStep ==
    \/ ParseArgv \/ ParseArgsV3 \/ ParseArgsSW
    \/ PrintStartup \/ PrintInterval \/ WriteStartup \/ PrintHint
    \/ EnterTry \/ Increment \/ PrintHeader \/ WriteHeader
    \/ CallInspector \/ InspectorReturns
    \/ PrintResult \/ WriteResult \/ PrintSeparator \/ WriteSeparator
    \/ Sleep
    \/ FormatFinal \/ PrintFinal \/ PrintSaved \/ PrintFinalSeparator
    \/ WriteFinal \/ WriteSaved \/ WriteFinalSeparator \/ Exit0

FairSpec == Init /\ [][Next]_vars /\ WF_vars(ProgramStep)

TypeOK ==
    /\ variant \in Variants
    /\ pc \in StartupPcs \cup TryPcs \cup HandlerPcs \cup {"Stopped"}
    /\ exit_code \in {"none", "0", "1", "2", "130"}
    /\ (pc = "Stopped") <=> (exit_code # "none")
    /\ check_count \in 0..(MaxChecks + 1)
    /\ Len(delivered) \in 0..MaxInterrupts
    /\ Len(outcomes) <= Len(calls)
    /\ Len(calls) <= MaxChecks

-----------------------------------------------------------------------------
(* Vocabulary of the properties *)

LogFile == FileOf(log_filename)

RECURSIVE SelectKind(_, _)
SelectKind(seq, kinds) ==
    IF seq = <<>> THEN <<>>
    ELSE IF Head(seq).kind \in kinds
         THEN <<Head(seq)>> \o SelectKind(Tail(seq), kinds)
         ELSE SelectKind(Tail(seq), kinds)

RECURSIVE DropKind(_, _)
DropKind(seq, kinds) ==
    IF seq = <<>> THEN <<>>
    ELSE IF Head(seq).kind \in kinds
         THEN DropKind(Tail(seq), kinds)
         ELSE <<Head(seq)>> \o DropKind(Tail(seq), kinds)

\* a is an order-preserving subsequence of b
RECURSIVE IsSubseq(_, _)
IsSubseq(a, b) ==
    IF a = <<>> THEN TRUE
    ELSE IF b = <<>> THEN FALSE
    ELSE IF Head(a) = Head(b) THEN IsSubseq(Tail(a), Tail(b))
    ELSE IsSubseq(a, Tail(b))

Has(seq, kind) == \E i \in 1..Len(seq) : seq[i].kind = kind

\* the result texts a sink holds, in order
ResultsIn(seq) ==
    LET r == SelectKind(seq, {"result"}) IN [i \in 1..Len(r) |-> r[i].text]

\* the poller is Running from the startup banner to the end of the loop
RunningPcs == (StartupPcs \ {"parse_args"}) \cup TryPcs

WritePcs ==
    { "write_startup", "write_header", "write_result", "write_separator",
      "write_final", "write_saved", "write_final_separator" }

Interrupted == delivered # <<>>
InterruptedAt(pcs) == Interrupted /\ delivered[1] \in pcs

-----------------------------------------------------------------------------
(* C1: in every variant that keeps a counter, the check_count the stop      *)
(* summary reports equals the number of check_ssl_certificate invocations   *)
(* made during the run, wherever in the polling loop the interrupt was      *)
(* delivered.  Refuted: an interrupt between check_count += 1 and the call  *)
(* reports one check more than was made.                                    *)
C1_SummaryCountEqualsInvocations ==
    \A i \in 1..Len(console) :
        console[i].kind = "final_msg" => console[i].n = Len(calls)

(* C2: an interrupt delivered at any point while the poller is Running      *)
(* (startup output, before, during or after the Inspector call, during a    *)
(* sink write, mid-sleep) ends in the summary on console and log file and   *)
(* exit code 0.  Stated on the final state of such a run.  Refuted: the     *)
(* startup output is outside try, so an interrupt there is uncaught.        *)
C2_InterruptEndsInSummaryAndExit0 ==
    (HasLog /\ pc = "Stopped" /\ InterruptedAt(RunningPcs)) =>
        /\ exit_code = "0"
        /\ Has(console, "final_msg")
        /\ Has(LogFile, "final_msg")


Settled ==
    \/ pc = "sleep"
    \/ /\ pc = "Stopped"
       /\ exit_code = "0"
       /\ InterruptedAt({"increment", "print_header", "call_inspector",
                         "inspector_running", "print_result",
                         "print_separator", "sleep"})

AllSeparators(seq) == SelectKind(seq, {"separator_line"})

(* C4: exactly one outcome is produced per poll cycle, and every outcome    *)
(* check_ssl_certificate returned is on the console and in the log file     *)
(* before the next cycle's Inspector call begins and when the run ends,     *)
(* interrupted runs included.  Stated for runs in which no log write        *)
(* failed.  Refuted: an interrupt after the call returned and before        *)
(* print(result) or write_to_file(result) drops the outcome.                *)
C4_EveryOutcomeReachesAllSinks ==
    (/\ HasLog
     /\ WriteFailures = 0
     /\ pc = "call_inspector" \/ (pc = "Stopped" /\ exit_code = "0")) =>
        /\ pc = "call_inspector" => Len(outcomes) = Len(calls)
        /\ ResultsIn(console) = outcomes
        /\ ResultsIn(LogFile) = outcomes

\* the port the command line asks for, when it gives one int() accepts
ConfiguredPort ==
    CASE variant = "V3" /\ Len(argv.port) > 0 /\ IsIntLiteral(argv.port[1]) ->
             <<IntValue(argv.port[1])>>
      [] variant = "SW" /\ HasColon(argv.server)
         /\ IsIntLiteral(RSplitColon(argv.server)[2]) ->
             <<IntValue(RSplitColon(argv.server)[2])>>
      [] OTHER -> <<>>

PortOutOfRange ==
    /\ ConfiguredPort # <<>>
    /\ ConfiguredPort[1] < 1 \/ ConfiguredPort[1] > MaxPort

(* C5: in each variant that takes a port from the command line (V3 -p, SW   *)
(* -s host:port), a port outside [1, 65535] ends the process with exit code *)
(* 1 before any call to check_ssl_certificate.  Refuted:                    *)
(* parse_hostname_port checks no range, and the loop runs with the port.    *)
C5_BadPortExitsBeforeAnyCall ==
    PortOutOfRange =>
        /\ calls = <<>>
        /\ (pc = "Stopped" /\ ~Interrupted) => exit_code = "1"

\* the interval the command line asks for, when it gives one int() accepts
ConfiguredInterval ==
    IF Len(argv.interval) > 0 /\ IsIntLiteral(argv.interval[1])
    THEN <<IntValue(argv.interval[1])>>
    ELSE <<>>

IntervalNotPositive == ConfiguredInterval # <<>> /\ ConfiguredInterval[1] <= 0

(* C6: in every variant, an interval <= 0 ends the process with exit code 1 *)
(* before the polling loop starts: no check header is emitted and           *)
(* check_ssl_certificate is not called.  Refuted: ssl_check.py and          *)
(* ssl_checkV2.py take any integer.                                         *)
C6_BadIntervalExitsBeforeLoop ==
    IntervalNotPositive =>
        /\ calls = <<>>
        /\ ~Has(console, "check_header")
        /\ (pc = "Stopped" /\ ~Interrupted) => exit_code = "1"

IsError(r) == Len(r) >= Len(ErrorPrefix) /\ SubSeq(r, 1, Len(ErrorPrefix)) = ErrorPrefix

(* C7: when every Inspector call fails, the failure is reported and the     *)
(* loop continues: as long as no interrupt is delivered, a cycle is         *)
(* followed by another cycle and the process never reaches a terminated     *)
(* state.  Stated as: without an interrupt, a run whose calls all failed    *)
(* is never Stopped once a call has been made.  Refuted by C6's defect: a   *)
(* negative interval makes time.sleep raise after the first cycle.          *)
C7_LoopContinuesThroughFailures ==
    (/\ ~Interrupted
     /\ calls # <<>>
     /\ \A i \in 1..Len(outcomes) : IsError(outcomes[i])) =>
        pc # "Stopped"

SummaryEmitted == Has(console, "final_msg")

(* C8: if the interrupt arrives in a cycle after that cycle's Inspector     *)
(* call has returned, the cycle still completes its sink writes: when the   *)
(* stop summary is emitted, the outcome and the separator of that cycle are *)
(* on the console and (no write having failed) in the log file.  Refuted:   *)
(* KeyboardInterrupt leaves the cycle at once.                              *)
C8_InFlightCycleCompletesWrites ==
    (/\ HasLog
     /\ InterruptedAt({"print_result", "write_result", "print_separator",
                       "write_separator"})
     /\ SummaryEmitted) =>
        /\ ResultsIn(console) = outcomes
        /\ Len(AllSeparators(console)) = Len(outcomes)
        /\ WriteFailures = 0 =>
               /\ ResultsIn(LogFile) = outcomes
               /\ Len(AllSeparators(LogFile)) = Len(outcomes)


\* the statement that follows each write_to_file call in main()
AfterWrite(p) ==
    CASE p = "write_startup" -> "print_hint"
      [] p = "write_header" -> "call_inspector"
      [] p = "write_result" -> "print_separator"
      [] p = "write_separator" -> "sleep"
      [] p = "write_final" -> "write_saved"
      [] p = "write_saved" -> "write_final_separator"
      [] p = "write_final_separator" -> "exit0"

\* main() executes a write_to_file call (the step is not the signal's)
WriteCallStep == pc \in WritePcs /\ pc' # pc /\ delivered' = delivered

(* C9: a failing log-file write is reported on the console and never ends   *)
(* the loop: whether the append went through or failed, main() goes on to   *)
(* the statement after the call, the process is not terminated, and         *)
(* check_count and the Inspector calls are untouched; the failed append     *)
(* leaves the file as it was and prints "Error writing to file".            *)
C9_FailedWriteReportedAndLoopGoesOn ==
    [][WriteCallStep =>
          /\ pc' = AfterWrite(pc)
          /\ exit_code' = "none"
          /\ check_count' = check_count
          /\ calls' = calls
          /\ outcomes' = outcomes
          /\ fs' = fs => console' = Append(console, write_error)
          /\ fs' # fs => console' = console]_vars

\* a write failed in the first cycle and the second cycle ran to its sleep
C9_Witness ==
    /\ pc = "sleep"
    /\ Len(calls) = 2
    /\ check_count = 2
    /\ \E i, j \in 1..Len(console) :
          /\ i < j
          /\ console[i] = check_header(1)
          /\ console[i + 1] = write_error
          /\ console[j] = check_header(2)
    /\ \A k \in 1..Len(LogFile) : LogFile[k] # check_header(1)

(* C10: the process terminates only in two ways: exit code 1 on a           *)
(* configuration validation failure, always before any Inspector call; or   *)
(* exit code 0 after an interrupt.  Refuted: argparse ends with status 2,   *)
(* an interrupt outside try is an uncaught KeyboardInterrupt, and a         *)
(* negative interval (C6) raises ValueError after the first check.          *)
C10_OnlyTwoWaysToStop ==
    pc = "Stopped" =>
        \/ /\ exit_code = "1"
           /\ cause \in {"usage", "interval", "port", "parse_port"}
           /\ calls = <<>>
        \/ /\ exit_code = "0"
           /\ Interrupted

-----------------------------------------------------------------------------
(* parse_hostname_port on its own: the --server argument ranges over every  *)
(* text of up to MaxArgLen characters of ParseAlphabet and over ServerArgs; *)
(* the one step is main()'s argument handling, which calls the function.    *)

MaxArgLen == 3
ParseAlphabet == {"h", ":", "8", "0", "-", "_", " "}

SeqsUpTo(S, n) == UNION { [1..k -> S] : k \in 0..n }

ParseInit ==
    /\ variant = "SW"
    /\ argv \in { Argv(<< <<"1">> >>, <<>>, s) :
                    s \in SeqsUpTo(ParseAlphabet, MaxArgLen) \cup ServerArgs }
    /\ Fresh

ParseNext == ParseArgsSW

ParseSpec == ParseInit /\ [][ParseNext]_vars

\* a plain decimal numeral, and its value read digit by digit from the right
IsDecimal(s) == s # <<>> /\ \A i \in 1..Len(s) : s[i] \in Digits

RECURSIVE Power10(_)
Power10(k) == IF k = 0 THEN 1 ELSE 10 * Power10(k - 1)

RECURSIVE DecimalValue(_)
DecimalValue(s) ==
    IF s = <<>> THEN 0
    ELSE DigitValue(Head(s)) * Power10(Len(s) - 1) + DecimalValue(Tail(s))

ColonPositions(s) == { i \in 1..Len(s) : s[i] = ":" }
Max(S) == CHOOSE x \in S : \A y \in S : y <= x

\* the texts before and after the last colon of s
BeforeLastColon(s) == [i \in 1..(Max(ColonPositions(s)) - 1) |-> s[i]]
AfterLastColon(s) ==
    [i \in 1..(Len(s) - Max(ColonPositions(s))) |-> s[Max(ColonPositions(s)) + i]]

Returned == pc = "print_startup"
ExitedWith1 == pc = "Stopped" /\ exit_code = "1" /\ cause = "parse_port"

(* C11: parse_hostname_port maps H:P, with P an integer as int() reads it,  *)
(* to host = H (everything before the last colon) and port = int(P), a      *)
(* plain decimal numeral giving its decimal value; an argument without a    *)
(* colon to (argument, 443); and ends the process with exit code 1 when     *)
(* the text after the last colon is not an integer.                         *)
C11_ParseHostnamePort ==
    pc # "parse_args" =>
        LET s == argv.server IN
        IF ColonPositions(s) = {}
        THEN Returned /\ hostname = s /\ port = 443
        ELSE IF IsIntLiteral(AfterLastColon(s))
        THEN /\ Returned
             /\ hostname = BeforeLastColon(s)
             /\ port = IntValue(AfterLastColon(s))
             /\ IsDecimal(AfterLastColon(s)) =>
                    port = DecimalValue(AfterLastColon(s))
        ELSE ExitedWith1

\* "example.com:8443" in small: host before the colon, port 8443
C11_Witness ==
    /\ argv.server = <<"h", ":", "8", "4", "4", "3">>
    /\ Returned
    /\ hostname = <<"h">>
    /\ port = 8443

-----------------------------------------------------------------------------
\* the check headers a sink holds, in order
Headers(seq) == SelectKind(seq, {"check_header"})

\* the first line of the stop summary: "Stopping..." in ssl_check.py, the
\* final_msg with the check count in the scripts that keep a log
SummaryKind == IF HasLog THEN "final_msg" ELSE "stopping"

(* C12: once an interrupt has been delivered inside the polling loop (the   *)
(* sleep included), control is out of the loop for good: sleep is not       *)
(* resumed, check_ssl_certificate is not called again, no check header is   *)
(* added to the console or to the log, and the first line printed after     *)
(* the interrupt is the stop summary.                                       *)
C12_NoCycleAfterInterrupt ==
    [][ InterruptedAt(TryPcs)' =>
          /\ pc' \notin TryPcs
          /\ calls' = calls
          /\ Headers(console') = Headers(console)
          /\ Headers(LogFile') = Headers(LogFile)
          /\ (console' # console /\ ~Has(console, SummaryKind)) =>
                /\ Len(console') = Len(console) + 1
                /\ console'[Len(console')].kind = SummaryKind ]_vars

\* interrupted in the middle of the sleep after the first check: the summary
\* is out, and there was no second call
C12_Witness ==
    /\ InterruptedAt({"sleep"})
    /\ Len(calls) = 1
    /\ Has(console, SummaryKind)
    /\ Len(Headers(console)) = 1

-----------------------------------------------------------------------------
\* the statements of one pass through the while body, in program order
CycleSteps ==
    IF HasLog
    THEN <<"increment", "print_header", "write_header", "call_inspector",
           "inspector_running", "print_result", "write_result",
           "print_separator", "write_separator", "sleep">>
    ELSE <<"print_header", "call_inspector", "inspector_running",
           "print_result", "print_separator", "sleep">>

PositionIn(seq, x) == CHOOSE i \in 1..Len(seq) : seq[i] = x

\* the statement that follows p in the loop; after sleep, the first again
StepAfter(p) ==
    IF p = "enter_try" THEN CycleSteps[1]
    ELSE CycleSteps[(PositionIn(CycleSteps, p) % Len(CycleSteps)) + 1]

Results(seq) == SelectKind(seq, {"result"})

(* C13: in a run without interrupt the steps of a cycle follow one fixed    *)
(* order (header, call, result, separator, sleep, next header): every step  *)
(* out of a loop statement leads to the next statement of that order, the   *)
(* only other exit being the ValueError of a negative sleep; a call is in   *)
(* flight exactly while check_ssl_certificate runs, so never two at once;   *)
(* and when the k+1-th call is about to be made, exactly k results and k    *)
(* separators and k+1 headers have been printed, and written to the log     *)
(* when no write failed.                                                    *)
C13_CyclesInOrder ==
    [][ delivered' = <<>> =>
          /\ (pc \in TryPcs /\ pc' # pc) =>
                \/ pc' = StepAfter(pc)
                \/ pc = "sleep" /\ pc' = "Stopped" /\ cause' = "ValueError"
          /\ Len(calls') - Len(outcomes') =
                (IF pc' = "inspector_running" THEN 1 ELSE 0)
          /\ pc' = "call_inspector" =>
                /\ Len(Headers(console')) = Len(calls') + 1
                /\ Len(Results(console')) = Len(calls')
                /\ Len(AllSeparators(console')) = Len(calls')
                /\ (HasLog /\ WriteFailures' = 0) =>
                      /\ Len(Headers(LogFile')) = Len(calls') + 1
                      /\ Len(Results(LogFile')) = Len(calls')
                      /\ Len(AllSeparators(LogFile')) = Len(calls') ]_vars

\* the second call of an uninterrupted run is in flight: one full cycle lies
\* before it in both sinks
C13_Witness ==
    /\ delivered = <<>>
    /\ HasLog
    /\ WriteFailures = 0
    /\ pc = "inspector_running"
    /\ Len(calls) = 2
    /\ Len(outcomes) = 1
    /\ Len(AllSeparators(LogFile)) = 1
    /\ Len(Headers(LogFile)) = 2

-----------------------------------------------------------------------------
\* the numbers the check headers of a sink carry, in order
HeaderNumbers(seq) == [i \in 1..Len(Headers(seq)) |-> Headers(seq)[i].n]

Consecutive(nums) == \A i \in 1..Len(nums) : nums[i] = i
Increasing(nums) == \A i \in 1..Len(nums) : \A j \in 1..(i - 1) : nums[j] < nums[i]

(* C14: in the scripts that count (V2, V3, SW) check_count is bound to 0    *)
(* on entry to try, each step leaves it alone or adds exactly 1, and it is  *)
(* incremented once per cycle: inside the loop it equals the number of      *)
(* headers printed, plus one between the increment and the print.  The      *)
(* headers on the console carry 1, 2, 3, ... with no gap and no repetition  *)
(* (so do those in the log when no write failed; they never repeat there),  *)
(* and the k-th call of check_ssl_certificate is made with check_count = k. *)
C14_CheckCountCountsCycles ==
    [][ HasLog =>
          /\ ("check_count" \in bound' /\ "check_count" \notin bound) =>
                check_count' = 0
          /\ "check_count" \in bound =>
                /\ "check_count" \in bound'
                /\ check_count' \in {check_count, check_count + 1}
          /\ (pc' \in TryPcs \ {"enter_try"}) =>
                check_count' = Len(Headers(console'))
                               + (IF pc' = "print_header" THEN 1 ELSE 0)
          /\ Consecutive(HeaderNumbers(console'))
          /\ Increasing(HeaderNumbers(LogFile'))
          /\ WriteFailures' = 0 => Consecutive(HeaderNumbers(LogFile'))
          /\ calls' # calls =>
                /\ Len(calls') = Len(calls) + 1
                /\ check_count = Len(calls') ]_vars

\* the second call is in flight with check_count = 2, after headers 1 and 2
C14_Witness ==
    /\ HasLog
    /\ pc = "inspector_running"
    /\ Len(calls) = 2
    /\ check_count = 2
    /\ HeaderNumbers(console) = <<1, 2>>
    /\ HeaderNumbers(LogFile) = <<1, 2>>

-----------------------------------------------------------------------------
(* check_ssl_certificate on its own: the first cycle of ssl_check.py and of *)
(* ssl_checker_with_server_and_website.py up to the printing of the result, *)
(* with subprocess.run ranging over every return code of ReturnCodes and    *)
(* every stdout, stderr and exception text of up to MaxTextLen characters   *)
(* of TextAlphabet, and the timeout.                                        *)

MaxTextLen == 2
TextAlphabet == {" ", "\n", "a"}
ReturnCodes == {0, 1, 255}

Texts == SeqsUpTo(TextAlphabet, MaxTextLen)

AnyOutcomes ==
    { Completed(rc, out, err) : rc \in ReturnCodes, out \in Texts, err \in Texts }
    \cup {TimeoutExpired}
    \cup { OtherException(m) : m \in Texts }

InspectorReturnsAny == InspectorReturnsFrom(AnyOutcomes)

InspectInit ==
    /\ variant \in {"V1", "SW"}
    /\ argv = Argv(<< <<"1">> >>, <<>>, IF variant = "SW" THEN <<"h">> ELSE <<>>)
    /\ Fresh

InspectNext ==
    \/ ParseArgv
    \/ ParseArgsSW
    \/ PrintStartup
    \/ PrintInterval
    \/ WriteStartup
    \/ PrintHint
    \/ EnterTry
    \/ Increment
    \/ PrintHeader
    \/ WriteHeader
    \/ CallInspector
    \/ InspectorReturnsAny
    \/ PrintResult

InspectSpec == InspectInit /\ [][InspectNext]_vars

\* t is s without its leading and trailing whitespace
IsStripped(t, s) ==
    /\ t = <<>> \/ (t[1] \notin Whitespace /\ t[Len(t)] \notin Whitespace)
    /\ \E i \in 1..(Len(s) + 1) :
          /\ i + Len(t) - 1 <= Len(s)
          /\ \A k \in 1..Len(t) : t[k] = s[i + k - 1]
          /\ \A k \in 1..(i - 1) : s[k] \in Whitespace
          /\ \A k \in (i + Len(t))..Len(s) : s[k] \in Whitespace

\* text is "Error: " followed by rest
IsErrorWith(text, rest) ==
    /\ Len(text) = 7 + Len(rest)
    /\ SubSeq(text, 1, 7) = <<"E", "r", "r", "o", "r", ":", " ">>
    /\ SubSeq(text, 8, Len(text)) = rest

(* C15: every call of check_ssl_certificate that has ended made exactly one *)
(* subprocess.run and returned a string, never raising out of the call:     *)
(* the stripped stdout when the return code is 0, "Error: " and the         *)
(* stripped stderr when it is not 0, "Error: Command timed out" on the      *)
(* timeout, "Error: " and the exception text on any other Exception; and    *)
(* that string is what main() prints as the result.                         *)
C15_InspectorReturnsAString ==
    /\ ~(pc = "Stopped" /\ cause = "Exception")
    /\ Len(runs) = Len(outcomes)
    /\ Len(runs) = Len(calls) - (IF pc = "inspector_running" THEN 1 ELSE 0)
    /\ \A k \in 1..Len(runs) :
          LET run == runs[k]
              text == outcomes[k]
          IN  /\ (run.kind = "completed" /\ run.returncode = 0) =>
                    IsStripped(text, run.stdout)
              /\ (run.kind = "completed" /\ run.returncode # 0) =>
                    \E t \in SeqsUpTo(TextAlphabet, Len(run.stderr)) :
                        IsStripped(t, run.stderr) /\ IsErrorWith(text, t)
              /\ run.kind = "TimeoutExpired" =>
                    text = <<"E", "r", "r", "o", "r", ":", " ", "C", "o", "m",
                             "m", "a", "n", "d", " ", "t", "i", "m", "e", "d",
                             " ", "o", "u", "t">>
              /\ run.kind = "Exception" => IsErrorWith(text, run.msg)
    /\ Results(console) = [k \in 1..Len(Results(console)) |->
                              result_line(outcomes[k])]

\* openssl failed with return code 1 and "a\n" on stderr: "Error: a" was
\* returned and printed
C15_Witness ==
    /\ runs = << Completed(1, <<>>, <<"a", "\n">>) >>
    /\ outcomes = << <<"E", "r", "r", "o", "r", ":", " ", "a">> >>
    /\ Has(console, "result")

-----------------------------------------------------------------------------
Kinds(seq) == [i \in 1..Len(seq) |-> seq[i].kind]

\* reading a sink entry by entry: where in the shape "banner, blocks of
\* header result separator, summary" the reader is after an entry of the
\* given kind, "bad" when the entry does not fit
ShapeStep(at, kind) ==
    CASE at = "start" /\ kind = "startup_msg" -> "between_blocks"
      [] at = "between_blocks" /\ kind = "check_header" -> "after_header"
      [] at = "after_header" /\ kind = "result" -> "after_result"
      [] at = "after_result" /\ kind = "separator_line" -> "between_blocks"
      [] at = "between_blocks" /\ kind = "final_msg" -> "after_final_msg"
      [] at = "after_final_msg" /\ kind = "results_saved" -> "after_saved"
      [] at = "after_saved" /\ kind = "final_separator" -> "end"
      [] OTHER -> "bad"

RECURSIVE ShapeAfter(_, _)
ShapeAfter(at, kinds) ==
    IF kinds = <<>> THEN at
    ELSE ShapeAfter(ShapeStep(at, Head(kinds)), Tail(kinds))

(* C16: in every reachable state the log, and the console apart from the    *)
(* "Press Ctrl+C" hint, read: startup banner, then cycle blocks each of     *)
(* check header, result, separator in that order (the last one possibly     *)
(* still being written), then, when present, the stop summary once and      *)
(* last.  Stated where no log write has failed.  Refuted: an interrupt      *)
(* inside a cycle puts the summary right after an unfinished block.         *)
C16_SinksHaveFixedShape ==
    (HasLog /\ WriteFailures = 0) =>
        /\ ShapeAfter("start", Kinds(LogFile)) # "bad"
        /\ Has(console, "startup_msg") =>
              ShapeAfter("start", Kinds(DropKind(console, {"press_ctrl_c"})))
                  # "bad"

-----------------------------------------------------------------------------
\* the console lines that have a write_to_file call of their own: all but
\* the "Press Ctrl+C to stop" hint and write_to_file's own error reports
Loggable(seq) == DropKind(seq, {"press_ctrl_c", "write_error"})

\* how many of the lines main() has printed for the log are not in the log
LogLag == Len(Loggable(console)) - Len(LogFile)

\* 1 while a printed line awaits its write_to_file call
PendingWrite == IF pc \in WritePcs THEN 1 ELSE 0

(* C17 as stated: the log is an order-preserving subsequence of the         *)
(* console, and while the loop runs it is at most one entry behind the      *)
(* console, failed writes included; the entries counted are those main()    *)
(* prints for the log.  Refuted: a failed write leaves the log one entry    *)
(* behind for good, and the next printed line makes it two.                 *)
C17_LogLagsByAtMostOne ==
    HasLog =>
        /\ IsSubseq(LogFile, console)
        /\ pc \in TryPcs => LogLag <= 1

(* C17 as amended: the log is an order-preserving subsequence of the        *)
(* console in every reachable state, and while the loop runs the number of  *)
(* loggable console lines missing from the log is exactly the number of     *)
(* failed writes plus one for a line printed and not yet written; so with   *)
(* no failed write the log is at most one entry behind.                     *)
C17_LogLagIsFailuresPlusPending ==
    HasLog =>
        /\ IsSubseq(LogFile, console)
        /\ IsSubseq(LogFile, Loggable(console))
        /\ pc \in TryPcs =>
              /\ LogLag = WriteFailures + PendingWrite
              /\ WriteFailures = 0 => LogLag <= 1

\* the header write failed and the result is printed, not yet written: the
\* log is two entries behind
C17_Witness ==
    /\ HasLog
    /\ pc = "write_result"
    /\ WriteFailures = 1
    /\ LogLag = 2
    /\ ~Has(LogFile, "check_header")
    /\ Has(console, "result")

-----------------------------------------------------------------------------
\* the target the --server argument names: the text before its last colon
\* and the number after it, or the whole text and 443
ServerTarget ==
    IF ColonPositions(argv.server) = {}
    THEN [hostname |-> argv.server, port |-> 443]
    ELSE [hostname |-> BeforeLastColon(argv.server),
          port |-> IntValue(AfterLastColon(argv.server))]

(* C18: once argument handling is over, no step (cycle, handler, exit)      *)
(* changes hostname, port, interval, website or log_filename; every         *)
(* check_ssl_certificate call of a run is made with that one (hostname,     *)
(* port); every log write goes to the one file log_filename; and in         *)
(* ssl_checker_with_server_and_website.py the calls carry the host and port *)
(* of --server, not the --website name.                                     *)
C18_ConfigurationIsFixed ==
    [][ /\ pc # "parse_args" => Locals' = Locals
        /\ \A k \in 1..Len(calls') :
              calls'[k] = [hostname |-> hostname', port |-> port']
        /\ DOMAIN fs' \subseteq {log_filename'}
        /\ fs' # fs => pc \in WritePcs
        /\ variant = "SW" =>
              \A k \in 1..Len(calls') : calls'[k] = ServerTarget ]_vars

\* two calls with --server h:8443 --website w.e: both went to ("h", 8443),
\* and the log is the one file named after the website
C18_Witness ==
    /\ variant = "SW"
    /\ argv.server = <<"h", ":", "8", "4", "4", "3">>
    /\ calls = << [hostname |-> <<"h">>, port |-> 8443],
                  [hostname |-> <<"h">>, port |-> 8443] >>
    /\ website # hostname
    /\ DOMAIN fs = {log_filename}
    /\ Has(LogFile, "separator_line")

=============================================================================
